---- MODULE Spec2Model ----
(***************************************************************************)
(* Model of programs/openbook-v2/src/state/switchboard_solana.rs:          *)
(* the Switchboard aggregator account, AggregatorAccountData::get_result,  *)
(* and the SwitchboardDecimal / BorshDecimal operations.                   *)
(*                                                                         *)
(* i128 values do not fit TLC's machine integers, so an integer is kept    *)
(* as a sign and a little-endian sequence of limbs in base 10^4, and the   *)
(* arithmetic the code uses (checked_mul, checked_div, pow, comparisons)   *)
(* is computed exactly on that representation.                             *)
(***************************************************************************)
EXTENDS Integers, Sequences, FiniteSets, TLC

(***************************************************************************)
(* Exact integer arithmetic.  A natural number is its limbs in base Base,   *)
(* least significant first, without a most significant zero; 0 is <<>>.    *)
(***************************************************************************)
Base == 100 * 100

\* d without its most significant zero limbs.
Trim(d) ==
    IF \A i \in 1..Len(d) : d[i] = 0 THEN <<>>
    ELSE LET top == CHOOSE i \in 1..Len(d) :
                        d[i] /= 0 /\ \A j \in (i + 1)..Len(d) : d[j] = 0
         IN  SubSeq(d, 1, top)

RECURSIVE NatDigits(_)
NatDigits(n) ==
    IF n = 0 THEN <<>> ELSE <<n % Base>> \o NatDigits(n \div Base)

\* Limb i of a, 0 above its most significant limb.
Limb(a, i) == IF i <= Len(a) THEN a[i] ELSE 0

MaxLen(a, b) == IF Len(a) < Len(b) THEN Len(b) ELSE Len(a)

\* The carry into limb i of a + b: some limb below i overflows and every
\* limb between it and i is full.
CarryInto(a, b, i) ==
    \E j \in 1..(i - 1) :
        /\ Limb(a, j) + Limb(b, j) >= Base
        /\ \A k \in (j + 1)..(i - 1) : Limb(a, k) + Limb(b, k) = Base - 1

NAdd(a, b) ==
    Trim(<<>> \o [i \in 1..(MaxLen(a, b) + 1) |->
            (Limb(a, i) + Limb(b, i) + (IF CarryInto(a, b, i) THEN 1 ELSE 0)) % Base])

\* -1, 0, 1 as a is below, equal to, above b.
NCmp(a, b) ==
    IF Len(a) < Len(b) THEN -1
    ELSE IF Len(a) > Len(b) THEN 1
    ELSE IF \A i \in 1..Len(a) : a[i] = b[i] THEN 0
    ELSE LET top == CHOOSE i \in 1..Len(a) :
                        a[i] /= b[i] /\ \A j \in (i + 1)..Len(a) : a[j] = b[j]
         IN  IF a[top] < b[top] THEN -1 ELSE 1

\* The borrow from limb i of a - b: some limb below i is short and every
\* limb between it and i is level.
BorrowFrom(a, b, i) ==
    \E j \in 1..(i - 1) :
        /\ Limb(a, j) < Limb(b, j)
        /\ \A k \in (j + 1)..(i - 1) : Limb(a, k) = Limb(b, k)

\* a - b for a >= b.
NSub(a, b) ==
    Trim(<<>> \o [i \in 1..Len(a) |->
            (Limb(a, i) - Limb(b, i) - (IF BorrowFrom(a, b, i) THEN 1 ELSE 0) + Base) % Base])

\* a * k for one limb k: the low halves of the limb products, plus their
\* high halves one limb up.
NMulDigit(a, k) ==
    NAdd(Trim(<<>> \o [i \in 1..Len(a) |-> (a[i] * k) % Base]),
         Trim(<<0>> \o [i \in 1..Len(a) |-> (a[i] * k) \div Base]))

\* a * Base^n
NShift(a, n) == IF a = <<>> THEN <<>> ELSE [i \in 1..n |-> 0] \o a

\* a times the limbs lo..hi of b, each at its place.
RECURSIVE NMulRange(_, _, _, _)
NMulRange(a, b, lo, hi) ==
    IF lo = hi THEN NShift(NMulDigit(a, b[lo]), lo - 1)
    ELSE LET mid == (lo + hi) \div 2
         IN  NAdd(NMulRange(a, b, lo, mid), NMulRange(a, b, mid + 1, hi))

NMul(a, b) ==
    IF a = <<>> \/ b = <<>> THEN <<>> ELSE NMulRange(a, b, 1, Len(b))

\* The largest k in lo..hi with k * b <= r (0 * b <= r always), by bisection.
RECURSIVE NQuotLimb(_, _, _, _)
NQuotLimb(b, r, lo, hi) ==
    IF lo = hi THEN lo
    ELSE LET mid == (lo + hi + 1) \div 2
         IN  IF NCmp(NMulDigit(b, mid), r) <= 0
             THEN NQuotLimb(b, r, mid, hi)
             ELSE NQuotLimb(b, r, lo, mid - 1)

\* Long division of a by b /= 0, one limb of a at a time from limb i down:
\* q and r are the quotient and the remainder of the limbs above i.
RECURSIVE NDivModFrom(_, _, _, _, _)
NDivModFrom(a, b, i, q, r) ==
    IF i = 0 THEN <<Trim(q), r>>
    ELSE LET r1 == Trim(<<a[i]>> \o r)
             k  == NQuotLimb(b, r1, 0, Base - 1)
         IN  IF k = 0 THEN NDivModFrom(a, b, i - 1, <<0>> \o q, r1)
             ELSE NDivModFrom(a, b, i - 1, <<k>> \o q, NSub(r1, NMulDigit(b, k)))

NDivMod(a, b) == NDivModFrom(a, b, Len(a), <<>>, <<>>)

\* a^n by repeated squaring.
RECURSIVE NPow(_, _)
NPow(a, n) ==
    IF n = 0 THEN <<1>>
    ELSE LET h  == NPow(a, n \div 2)
             hh == NMul(h, h)
         IN  IF n % 2 = 1 THEN NMul(hh, a) ELSE hh

(***************************************************************************)
(* Signed integers: [neg, mag], zero never negative.                       *)
(***************************************************************************)
MkInt(neg, mag) == [neg |-> neg /\ mag /= <<>>, mag |-> mag]

Z(n) == IF n < 0 THEN MkInt(TRUE, NatDigits(0 - n)) ELSE MkInt(FALSE, NatDigits(n))

ZNeg(a) == MkInt(~a.neg, a.mag)

ZAbs(a) == MkInt(FALSE, a.mag)

ZIsZero(a) == a.mag = <<>>

ZCmp(a, b) ==
    IF a.neg /\ ~b.neg THEN -1
    ELSE IF ~a.neg /\ b.neg THEN 1
    ELSE IF a.neg THEN NCmp(b.mag, a.mag)
    ELSE NCmp(a.mag, b.mag)

ZLe(a, b) == ZCmp(a, b) <= 0

ZLt(a, b) == ZCmp(a, b) < 0

ZAdd(a, b) ==
    IF a.neg = b.neg THEN MkInt(a.neg, NAdd(a.mag, b.mag))
    ELSE IF NCmp(a.mag, b.mag) >= 0 THEN MkInt(a.neg, NSub(a.mag, b.mag))
    ELSE MkInt(b.neg, NSub(b.mag, a.mag))

ZSub(a, b) == ZAdd(a, ZNeg(b))

ZMul(a, b) == MkInt(a.neg /= b.neg, NMul(a.mag, b.mag))

\* Quotient rounded toward zero, as Rust's integer division; b /= 0.
ZDivTrunc(a, b) == MkInt(a.neg /= b.neg, NDivMod(a.mag, b.mag)[1])

ZPow(a, n) == MkInt(a.neg /\ n % 2 = 1, NPow(a.mag, n))

\* 10^n: in base 10^4, n \div 4 zero limbs below the limb 10^(n % 4).
TenTo(n) ==
    MkInt(FALSE, [i \in 1..(n \div 4) |-> 0]
                 \o <<IF n % 4 = 0 THEN 1
                      ELSE IF n % 4 = 1 THEN 10
                      ELSE IF n % 4 = 2 THEN 100
                      ELSE 1000>>)

\* A natural number written as its decimal digits in groups of four, most
\* significant group first.
Lit(groups) ==
    MkInt(FALSE, <<>> \o [i \in 1..Len(groups) |-> groups[Len(groups) + 1 - i]])

(***************************************************************************)
(* Rust values: Result / Option / panic, and the integer ranges.           *)
(***************************************************************************)
Ok(v) == [kind |-> "ok", val |-> v]

Err(e) == [kind |-> "err", err |-> e]

\* A trap: Option::unwrap / Result::unwrap on a failure, or an arithmetic
\* overflow in a build with overflow checks.
Panic == [kind |-> "panic"]

Some(v) == [some |-> TRUE, val |-> v]

None == [some |-> FALSE]

unwrap(o) == IF o.some THEN Ok(o.val) ELSE Panic

\* 2^127 - 1 = 170141183460469231731687303715884105727
I128_MAX == Lit(<<170, 1411, 8346, 0469, 2317, 3168, 7303, 7158, 8410, 5727>>)

\* -2^127
I128_MIN == ZNeg(Lit(<<170, 1411, 8346, 0469, 2317, 3168, 7303, 7158, 8410, 5728>>))

\* 2^128 = 340282366920938463463374607431768211456
TWO_128 == Lit(<<340, 2823, 6692, 0938, 4634, 6337, 4607, 4317, 6821, 1456>>)

\* 2^63 - 1 = 9223372036854775807
I64_MAX == Lit(<<922, 3372, 0368, 5477, 5807>>)

\* -2^63
I64_MIN == ZNeg(Lit(<<922, 3372, 0368, 5477, 5808>>))

\* 2^64 - 1 = 18446744073709551615
U64_MAX == Lit(<<1844, 6744, 0737, 0955, 1615>>)

\* The literals above are the powers of two they are said to be.
LiteralsAgree ==
    /\ I128_MAX = ZSub(ZPow(Z(2), 127), Z(1))
    /\ I128_MIN = ZNeg(ZPow(Z(2), 127))
    /\ TWO_128 = ZPow(Z(2), 128)
    /\ I64_MAX = ZSub(ZPow(Z(2), 63), Z(1))
    /\ I64_MIN = ZNeg(ZPow(Z(2), 63))
    /\ U64_MAX = ZSub(ZPow(Z(2), 64), Z(1))
    /\ \A n \in 0..45 : TenTo(n) = ZPow(Z(10), n)
    /\ Lit(<<7, 9228, 1625, 1426, 4337, 5935, 4395, 0335>>) = ZSub(ZPow(Z(2), 96), Z(1))

FitsI128(v) == ZLe(I128_MIN, v) /\ ZLe(v, I128_MAX)

\* v reduced modulo 2^128 into the i128 range (two's complement).
WrapI128(v) ==
    LET m  == TWO_128
        r  == MkInt(FALSE, NDivMod(v.mag, m.mag)[2])
        u  == IF v.neg /\ ~ZIsZero(r) THEN ZSub(m, r) ELSE r
    IN  IF ZLe(u, I128_MAX) THEN u ELSE ZSub(u, m)

\* i128::checked_mul
checked_mul(a, b) ==
    LET p == ZMul(a, b) IN IF FitsI128(p) THEN Some(p) ELSE None

\* i128::checked_div
checked_div(a, b) ==
    IF ZIsZero(b) \/ (a = I128_MIN /\ b = Z(-1)) THEN None
    ELSE Some(ZDivTrunc(a, b))

\* 10_i128.pow(exp): an overflow panics in a build with overflow checks and
\* wraps in a build without them.
pow10(exp, overflow_checks) ==
    LET p == TenTo(exp)
    IN  IF FitsI128(p) THEN Ok(p)
        ELSE IF overflow_checks THEN Panic
        ELSE Ok(WrapI128(p))

(***************************************************************************)
(* The account: the fields get_result reads, and some it does not.         *)
(***************************************************************************)
ModeRoundResolution == "ModeRoundResolution"

ModeSlidingResolution == "ModeSlidingResolution"

SwitchboardDecimal(mantissa, scale) ==
    [ty |-> "SwitchboardDecimal", mantissa |-> mantissa, scale |-> scale]

AggregatorRound(num_success, num_error, is_closed, open_slot, open_ts, result) ==
    [num_success |-> num_success, num_error |-> num_error,
     is_closed |-> is_closed, round_open_slot |-> open_slot,
     round_open_timestamp |-> open_ts, result |-> result]

\* std::mem::zeroed(): every field zero, the mode the variant numbered 0.
DefaultRound == AggregatorRound(0, 0, FALSE, 0, 0, SwitchboardDecimal(Z(0), 0))

\* Mutant: a default account that asks for one oracle result.
DefaultAggregator_min1 ==
    [min_oracle_results |-> 1, expiration |-> 0,
     consecutive_failure_count |-> 0,
     latest_confirmed_round |-> DefaultRound,
     current_round |-> DefaultRound,
     resolution_mode |-> ModeRoundResolution]

DefaultAggregator ==
    [min_oracle_results |-> 0, expiration |-> 0,
     consecutive_failure_count |-> 0,
     latest_confirmed_round |-> DefaultRound,
     current_round |-> DefaultRound,
     resolution_mode |-> ModeRoundResolution]

\* Mutant: the quorum test off by one (>= for >).
get_result_ge(self) ==
    [self |-> self,
     ret  |-> IF self.resolution_mode = ModeSlidingResolution
              THEN Ok(self.latest_confirmed_round.result)
              ELSE IF self.min_oracle_results >= self.latest_confirmed_round.num_success
              THEN Err("InvalidAggregatorRound")
              ELSE Ok(self.latest_confirmed_round.result)]

\* Mutant: the quorum test applied in both resolution modes.
get_result_no_sliding(self) ==
    [self |-> self,
     ret  |-> IF self.min_oracle_results > self.latest_confirmed_round.num_success
              THEN Err("InvalidAggregatorRound")
              ELSE Ok(self.latest_confirmed_round.result)]

\* Mutant: a successful read consumes the confirmed round.
get_result_consume(self) ==
    LET r == IF self.resolution_mode = ModeSlidingResolution
             THEN Ok(self.latest_confirmed_round.result)
             ELSE IF self.min_oracle_results > self.latest_confirmed_round.num_success
             THEN Err("InvalidAggregatorRound")
             ELSE Ok(self.latest_confirmed_round.result)
    IN  [self |-> IF r.kind = "ok"
                  THEN [self EXCEPT !.latest_confirmed_round.num_success = 0]
                  ELSE self,
         ret  |-> r]

\* Mutant: a round that is still open is refused.
get_result_closed_only(self) ==
    [self |-> self,
     ret  |-> IF ~self.latest_confirmed_round.is_closed
              THEN Err("InvalidAggregatorRound")
              ELSE IF self.resolution_mode = ModeSlidingResolution
              THEN Ok(self.latest_confirmed_round.result)
              ELSE IF self.min_oracle_results > self.latest_confirmed_round.num_success
              THEN Err("InvalidAggregatorRound")
              ELSE Ok(self.latest_confirmed_round.result)]

\* get_result(&self): the result, and the account as the call leaves it.
get_result(self) ==
    [self |-> self,
     ret  |-> IF self.resolution_mode = ModeSlidingResolution
              THEN Ok(self.latest_confirmed_round.result)
              ELSE IF self.min_oracle_results > self.latest_confirmed_round.num_success
              THEN Err("InvalidAggregatorRound")
              ELSE Ok(self.latest_confirmed_round.result)]

(***************************************************************************)
(* SwitchboardDecimal: rescaling.  overflow_checks is the build's          *)
(* overflow-checks setting, which decides what 10_i128.pow does on         *)
(* overflow.                                                               *)
(***************************************************************************)
\* Mutant: the two rescaling directions exchanged.
scale_to_swapped(self, new_scale, overflow_checks) ==
    IF self.scale > new_scale
    THEN LET p == pow10(self.scale - new_scale, overflow_checks)
         IN  IF p.kind = "panic" THEN Panic
             ELSE unwrap(checked_mul(self.mantissa, p.val))
    ELSE IF self.scale < new_scale
    THEN LET p == pow10(new_scale - self.scale, overflow_checks)
         IN  IF p.kind = "panic" THEN Panic
             ELSE unwrap(checked_div(self.mantissa, p.val))
    ELSE Ok(self.mantissa)

scale_to(self, new_scale, overflow_checks) ==
    IF self.scale > new_scale
    THEN LET p == pow10(self.scale - new_scale, overflow_checks)
         IN  IF p.kind = "panic" THEN Panic
             ELSE unwrap(checked_div(self.mantissa, p.val))
    ELSE IF self.scale < new_scale
    THEN LET p == pow10(new_scale - self.scale, overflow_checks)
         IN  IF p.kind = "panic" THEN Panic
             ELSE unwrap(checked_mul(self.mantissa, p.val))
    ELSE Ok(self.mantissa)

new_with_scale(self, new_scale, overflow_checks) ==
    LET mantissa == scale_to(self, new_scale, overflow_checks)
    IN  IF mantissa.kind = "panic" THEN Panic
        ELSE Ok(SwitchboardDecimal(mantissa.val, new_scale))

(***************************************************************************)
(* BorshDecimal, and the conversions between the two decimals.             *)
(***************************************************************************)
BorshDecimal(mantissa, scale) ==
    [ty |-> "BorshDecimal", mantissa |-> mantissa, scale |-> scale]

\* Mutant: the sign of the mantissa lost on the way in.
BorshDecimal_from_abs(s) == BorshDecimal(ZAbs(s.mantissa), s.scale)

\* impl From<SwitchboardDecimal> for BorshDecimal
BorshDecimal_from(s) == BorshDecimal(s.mantissa, s.scale)

\* impl From<BorshDecimal> for SwitchboardDecimal
SwitchboardDecimal_from(val) == SwitchboardDecimal(val.mantissa, val.scale)

(***************************************************************************)
(* rust_decimal::Decimal, as far as the code uses it: a 96-bit magnitude,  *)
(* a sign and a scale of at most 28.                                       *)
(***************************************************************************)
MAX_PRECISION_U32 == 28

\* 2^96 - 1 = 79228162514264337593543950335
MAX_I128_REPR == Lit(<<7, 9228, 1625, 1426, 4337, 5935, 4395, 0335>>)

Decimal(mantissa, scale) ==
    [ty |-> "Decimal", mantissa |-> mantissa, scale |-> scale]

\* Decimal::try_from_i128_with_scale
try_from_i128_with_scale(num, scale) ==
    IF scale > MAX_PRECISION_U32 THEN Err("ScaleExceedsMaximumPrecision")
    ELSE IF ZLt(MAX_I128_REPR, num) THEN Err("ExceedsMaximumPossibleValue")
    ELSE IF ZLt(num, ZNeg(MAX_I128_REPR)) THEN Err("LessThanMinimumPossibleValue")
    ELSE Ok(Decimal(num, scale))

\* impl TryInto<Decimal> for &SwitchboardDecimal (and for SwitchboardDecimal)
try_into_Decimal(self) ==
    LET r == try_from_i128_with_scale(self.mantissa, self.scale)
    IN  IF r.kind = "ok" THEN r ELSE Err("DecimalConversionError")

\* impl TryInto<Decimal> for &BorshDecimal (and for BorshDecimal)
BorshDecimal_try_into_Decimal(self) ==
    LET r == try_from_i128_with_scale(self.mantissa, self.scale)
    IN  IF r.kind = "ok" THEN r ELSE Err("DecimalConversionError")

\* Decimal::mantissa: the magnitude with the sign put back.
Decimal_mantissa(d) == MkInt(d.mantissa.neg, d.mantissa.mag)

\* Decimal::scale
Decimal_scale(d) == d.scale

\* Mutant: a trailing zero of the mantissa traded for one step of scale.
SwitchboardDecimal_from_Decimal_normalized(val) ==
    LET qr == NDivMod(val.mantissa.mag, <<10>>)
    IN  IF val.scale > 0 /\ qr[2] = <<>>
        THEN SwitchboardDecimal(MkInt(val.mantissa.neg, qr[1]), val.scale - 1)
        ELSE SwitchboardDecimal(Decimal_mantissa(val), Decimal_scale(val))

\* impl From<Decimal> for SwitchboardDecimal
SwitchboardDecimal_from_Decimal(val) ==
    SwitchboardDecimal(Decimal_mantissa(val), Decimal_scale(val))

\* impl From<Decimal> for BorshDecimal (and From<&Decimal>)
BorshDecimal_from_Decimal(s) ==
    BorshDecimal(Decimal_mantissa(s), Decimal_scale(s))

\* Result::unwrap
unwrap_result(r) == IF r.kind = "ok" THEN r ELSE Panic

Reverse(o) ==
    IF o = "Less" THEN "Greater" ELSE IF o = "Greater" THEN "Less" ELSE "Equal"

OrderingOf(c) == IF c < 0 THEN "Less" ELSE IF c > 0 THEN "Greater" ELSE "Equal"

\* Decimal::cmp: zeros are equal, then the signs decide, then the magnitudes
\* brought to the larger of the two scales.
Decimal_cmp(a, b) ==
    IF ZIsZero(a.mantissa) /\ ZIsZero(b.mantissa) THEN "Equal"
    ELSE IF a.mantissa.neg /= b.mantissa.neg
    THEN (IF a.mantissa.neg THEN "Less" ELSE "Greater")
    ELSE LET am == IF a.scale < b.scale
                   THEN NMul(a.mantissa.mag, TenTo(b.scale - a.scale).mag)
                   ELSE a.mantissa.mag
             bm == IF b.scale < a.scale
                   THEN NMul(b.mantissa.mag, TenTo(a.scale - b.scale).mag)
                   ELSE b.mantissa.mag
             c  == OrderingOf(NCmp(am, bm))
         IN  IF a.mantissa.neg THEN Reverse(c) ELSE c

\* Decimal::trunc, as an integer.
Decimal_trunc(d) == ZDivTrunc(d.mantissa, TenTo(d.scale))

\* Decimal::to_u64
to_u64(d) ==
    IF d.mantissa.neg THEN None
    ELSE LET t == Decimal_trunc(d)
         IN  IF ZLt(U64_MAX, t) THEN None ELSE Some(t)

\* Decimal::to_i64
to_i64(d) ==
    LET t == Decimal_trunc(d)
    IN  IF ZLt(U64_MAX, ZAbs(t)) THEN None
        ELSE IF ZLt(I64_MAX, ZAbs(t))
        THEN (IF d.mantissa.neg /\ t = I64_MIN THEN Some(I64_MIN) ELSE None)
        ELSE Some(t)

\* Decimal::to_f64: always a value, the f64 nearest to d (not computed here).
to_f64(d) == Some([ty |-> "f64", nearest |-> d])

\* Option::ok_or
ok_or(o, e) == IF o.some THEN Ok(o.val) ELSE Err(e)

(***************************************************************************)
(* SwitchboardDecimal: comparison, equality, numeric conversions.          *)
(***************************************************************************)
\* let s: Decimal = self.try_into().unwrap();
\* let other: Decimal = other.try_into().unwrap();
both_Decimals(self, other) ==
    LET s == unwrap_result(try_into_Decimal(self))
        o == unwrap_result(try_into_Decimal(other))
    IN  IF s.kind = "panic" \/ o.kind = "panic" THEN Panic
        ELSE Ok([s |-> s.val, other |-> o.val])

\* Mutant: the raw mantissas compared, the scales ignored.
cmp_raw(self, other) ==
    LET d == both_Decimals(self, other)
    IN  IF d.kind = "panic" THEN Panic
        ELSE Ok(OrderingOf(ZCmp(d.val.s.mantissa, d.val.other.mantissa)))

\* impl Ord: cmp
cmp(self, other) ==
    LET d == both_Decimals(self, other)
    IN  IF d.kind = "panic" THEN Panic
        ELSE Ok(Decimal_cmp(d.val.s, d.val.other))

\* impl PartialOrd: partial_cmp
partial_cmp(self, other) ==
    LET c == cmp(self, other)
    IN  IF c.kind = "panic" THEN Panic ELSE Ok(Some(c.val))

\* s < other
lt(self, other) ==
    LET d == both_Decimals(self, other)
    IN  IF d.kind = "panic" THEN Panic
        ELSE Ok(Decimal_cmp(d.val.s, d.val.other) = "Less")

\* s <= other
le(self, other) ==
    LET d == both_Decimals(self, other)
    IN  IF d.kind = "panic" THEN Panic
        ELSE Ok(Decimal_cmp(d.val.s, d.val.other) /= "Greater")

\* s > other
gt(self, other) ==
    LET d == both_Decimals(self, other)
    IN  IF d.kind = "panic" THEN Panic
        ELSE Ok(Decimal_cmp(d.val.s, d.val.other) = "Greater")

\* s >= other
ge(self, other) ==
    LET d == both_Decimals(self, other)
    IN  IF d.kind = "panic" THEN Panic
        ELSE Ok(Decimal_cmp(d.val.s, d.val.other) /= "Less")

\* Mutant: equality by numeric value.
eq_numeric(self, other) ==
    LET c == cmp(self, other)
    IN  IF c.kind = "panic" THEN Ok(FALSE) ELSE Ok(c.val = "Equal")

\* #[derive(PartialEq)]: field by field.
eq(self, other) ==
    Ok(self.mantissa = other.mantissa /\ self.scale = other.scale)

\* Mutant: the sign dropped before the conversion to u64.
try_into_u64_abs(self) ==
    LET dec == unwrap_result(try_into_Decimal(self))
    IN  IF dec.kind = "panic" THEN Panic
        ELSE ok_or(to_u64(Decimal(ZAbs(dec.val.mantissa), dec.val.scale)),
                   "IntegerOverflowError")

\* impl TryInto<u64> for SwitchboardDecimal
try_into_u64(self) ==
    LET dec == unwrap_result(try_into_Decimal(self))
    IN  IF dec.kind = "panic" THEN Panic
        ELSE ok_or(to_u64(dec.val), "IntegerOverflowError")

\* impl TryInto<i64> for SwitchboardDecimal
try_into_i64(self) ==
    LET dec == unwrap_result(try_into_Decimal(self))
    IN  IF dec.kind = "panic" THEN Panic
        ELSE ok_or(to_i64(dec.val), "IntegerOverflowError")

\* impl TryInto<f64> for SwitchboardDecimal
try_into_f64(self) ==
    LET dec == unwrap_result(try_into_Decimal(self))
    IN  IF dec.kind = "panic" THEN Panic
        ELSE ok_or(to_f64(dec.val), "IntegerOverflowError")

\* Decimal::round: to no decimal places, a half going to the even neighbour.
Decimal_round(d) ==
    LET p     == TenTo(d.scale)
        q     == ZDivTrunc(d.mantissa, p)
        twice == ZMul(Z(2), ZAbs(ZSub(d.mantissa, ZMul(q, p))))
        even  == q.mag = <<>> \/ q.mag[1] % 2 = 0
        away  == IF d.mantissa.neg THEN ZSub(q, Z(1)) ELSE ZAdd(q, Z(1))
    IN  IF ZLt(twice, p) \/ (twice = p /\ even)
        THEN Decimal(q, 0)
        ELSE Decimal(away, 0)

\* Mutant: the fraction dropped instead of rounded.
bool_from_trunc(s) ==
    LET dec == unwrap_result(try_into_Decimal(s))
    IN  IF dec.kind = "panic" THEN Panic
        ELSE Ok(~ZIsZero(Decimal_trunc(dec.val)))

\* impl From<SwitchboardDecimal> for bool
bool_from(s) ==
    LET dec == unwrap_result(try_into_Decimal(s))
    IN  IF dec.kind = "panic" THEN Panic
        ELSE Ok(~ZIsZero(Decimal_round(dec.val).mantissa))

(***************************************************************************)
(* State.                                                                  *)
(***************************************************************************)
VARIABLES acct, acct0, out, prev, calls, dpc, call, ret, mkt, mkt0, trace

vars == <<acct, acct0, out, prev, calls, dpc, call, ret, mkt, mkt0, trace>>

aggVars == <<acct, acct0, out, prev, calls>>

decVars == <<dpc, call, ret>>

takeVars == <<mkt, mkt0, trace>>

\* No market: the order book is not part of the behaviour.
NoOrder == [side |-> "none", lots |-> 0]

NoMarket == [book |-> NoOrder]

NoCall == [op |-> "none"]

NoRet == [kind |-> "none"]

\* Bounds of the model.
MaxCount == 3

MaxCalls == 2

Prices ==
    {SwitchboardDecimal(Z(0), 0), SwitchboardDecimal(Z(150), 2),
     SwitchboardDecimal(Z(-42), 5), SwitchboardDecimal(I128_MAX, 0)}

LatestRounds ==
    {AggregatorRound(s, e, c, t, t, r) :
        s \in 0..MaxCount, e \in 0..1, c \in BOOLEAN, t \in 0..1, r \in Prices}

CurrentRounds ==
    {DefaultRound, AggregatorRound(1, 1, FALSE, 2, 2, SwitchboardDecimal(Z(15), 1))}

Accounts ==
    {[min_oracle_results |-> q, expiration |-> x,
      consecutive_failure_count |-> f,
      latest_confirmed_round |-> l, current_round |-> c,
      resolution_mode |-> m] :
        q \in 0..MaxCount, x \in 0..1, f \in 0..1, l \in LatestRounds,
        c \in CurrentRounds, m \in {ModeRoundResolution, ModeSlidingResolution}}

Init ==
    /\ acct \in Accounts
    /\ acct0 = acct
    /\ out = NoRet
    /\ prev = NoRet
    /\ calls = 0
    /\ dpc = "idle"
    /\ call = NoCall
    /\ ret = NoRet
    /\ mkt = NoMarket
    /\ mkt0 = NoMarket
    /\ trace = <<>>

\* A caller reads the price: feed.get_result().
GetResult ==
    /\ calls < MaxCalls
    /\ LET r == get_result(acct)
       IN  /\ acct' = r.self
           /\ out' = r.ret
    /\ prev' = out
    /\ calls' = calls + 1
    /\ UNCHANGED <<acct0, decVars, takeVars>>

Next == GetResult

Spec == Init /\ [][Next]_vars

(***************************************************************************)
(* The decimal operations, one call (or two in a row) per behaviour:       *)
(* SpecDec.                                                                *)
(***************************************************************************)
MaxSmall == 2

MaxScale == 2

\* The decimals that are rescaled: small ones, the examples of the
\* documentation, and the ends of the i128 range.
RescaleMantissas ==
    {Z(k) : k \in (0 - MaxSmall)..MaxSmall}
    \cup {Z(123), Z(-129)}
    \cup {I128_MAX, I128_MIN,
          ZDivTrunc(I128_MAX, Z(10)), ZAdd(ZDivTrunc(I128_MAX, Z(10)), Z(1)),
          ZDivTrunc(I128_MIN, Z(10)), ZSub(ZDivTrunc(I128_MIN, Z(10)), Z(1))}

RescaleScales == (0..MaxScale) \cup {38, 39, 40}

RescaleDecimals ==
    {SwitchboardDecimal(m, s) : m \in RescaleMantissas, s \in RescaleScales}

\* The decimals that are converted: around the limits of Decimal, u64, i64.
Mantissas ==
    {Z(k) : k \in (0 - MaxSmall)..MaxSmall}
    \cup {Z(150), Z(15), Z(-42), I128_MAX, I128_MIN,
          MAX_I128_REPR, ZAdd(MAX_I128_REPR, Z(1)),
          ZNeg(MAX_I128_REPR), ZNeg(ZAdd(MAX_I128_REPR, Z(1))),
          U64_MAX, ZAdd(U64_MAX, Z(1)), I64_MAX, ZAdd(I64_MAX, Z(1)),
          I64_MIN, ZSub(I64_MIN, Z(1)),
          ZAdd(ZMul(U64_MAX, Z(10)), Z(5)), ZAdd(ZMul(I64_MAX, Z(10)), Z(5)),
          ZSub(ZMul(I64_MIN, Z(10)), Z(5))}

Scales == (0..MaxScale) \cup {5, 28, 29}

Decimals == {SwitchboardDecimal(m, s) : m \in Mantissas, s \in Scales}

\* The operands of the comparisons.
CmpMantissas ==
    {Z(k) : k \in (0 - 1)..1}
    \cup {Z(150), Z(15), Z(-150),
          MAX_I128_REPR, ZAdd(MAX_I128_REPR, Z(1)), ZNeg(MAX_I128_REPR)}

CmpScales == (0..MaxScale) \cup {28, 29}

CmpDecimals == {SwitchboardDecimal(m, s) : m \in CmpMantissas, s \in CmpScales}

InitDec ==
    /\ acct = DefaultAggregator
    /\ acct0 = acct
    /\ out = NoRet
    /\ prev = NoRet
    /\ calls = 0
    /\ dpc = "idle"
    /\ call = NoCall
    /\ ret = NoRet
    /\ mkt = NoMarket
    /\ mkt0 = NoMarket
    /\ trace = <<>>

\* d.scale_to(new_scale)
ScaleTo ==
    /\ dpc = "idle"
    /\ \E d \in RescaleDecimals, n \in RescaleScales, oc \in BOOLEAN :
          /\ call' = [op |-> "scale_to", self |-> d, new_scale |-> n,
                      overflow_checks |-> oc]
          /\ ret' = scale_to(d, n, oc)
    /\ dpc' = "done"
    /\ UNCHANGED <<aggVars, takeVars>>

\* d.new_with_scale(new_scale)
NewWithScale ==
    /\ dpc = "idle"
    /\ \E d \in RescaleDecimals, n \in RescaleScales, oc \in BOOLEAN :
          /\ call' = [op |-> "new_with_scale", self |-> d, new_scale |-> n,
                      overflow_checks |-> oc]
          /\ ret' = new_with_scale(d, n, oc)
    /\ dpc' = "rescaled"
    /\ UNCHANGED <<aggVars, takeVars>>

\* The decimal new_with_scale returned, rescaled to the scale it came from.
ScaleBack ==
    /\ dpc = "rescaled"
    /\ ret.kind = "ok"
    /\ call' = [op |-> "scale_back", self |-> ret.val,
                new_scale |-> call.self.scale, orig |-> call.self,
                overflow_checks |-> call.overflow_checks]
    /\ ret' = scale_to(ret.val, call.self.scale, call.overflow_checks)
    /\ dpc' = "done"
    /\ UNCHANGED <<aggVars, takeVars>>

\* One comparison of two decimals: the operation and what it returns.
Compare(op, a, b, r) ==
    /\ dpc = "idle"
    /\ call' = [op |-> op, self |-> a, other |-> b]
    /\ ret' = r
    /\ dpc' = "done"
    /\ UNCHANGED <<aggVars, takeVars>>

Cmp == \E a \in CmpDecimals, b \in CmpDecimals : Compare("cmp", a, b, cmp(a, b))

PartialCmp ==
    \E a \in CmpDecimals, b \in CmpDecimals :
        Compare("partial_cmp", a, b, partial_cmp(a, b))

Lt == \E a \in CmpDecimals, b \in CmpDecimals : Compare("lt", a, b, lt(a, b))

Le == \E a \in CmpDecimals, b \in CmpDecimals : Compare("le", a, b, le(a, b))

Gt == \E a \in CmpDecimals, b \in CmpDecimals : Compare("gt", a, b, gt(a, b))

Ge == \E a \in CmpDecimals, b \in CmpDecimals : Compare("ge", a, b, ge(a, b))

Eq == \E a \in CmpDecimals, b \in CmpDecimals : Compare("eq", a, b, eq(a, b))

\* BorshDecimal::from(s): of a fresh decimal, or of the one a conversion
\* from a BorshDecimal has just returned.
IntoBorsh ==
    /\ \/ /\ dpc = "idle"
          /\ \E s \in Decimals :
                /\ call' = [op |-> "into_borsh", self |-> s, orig |-> s, step |-> 1]
                /\ ret' = Ok(BorshDecimal_from(s))
          /\ dpc' = "converted"
       \/ /\ dpc = "converted"
          /\ call.op = "into_switchboard"
          /\ call' = [op |-> "into_borsh", self |-> ret.val,
                      orig |-> call.orig, step |-> 2]
          /\ ret' = Ok(BorshDecimal_from(ret.val))
          /\ dpc' = "done"
    /\ UNCHANGED <<aggVars, takeVars>>

\* SwitchboardDecimal::from(val): of a fresh wire decimal, or of the one a
\* conversion from a SwitchboardDecimal has just returned.
IntoSwitchboard ==
    /\ \/ /\ dpc = "idle"
          /\ \E s \in Decimals :
                LET b == BorshDecimal(s.mantissa, s.scale)
                IN  /\ call' = [op |-> "into_switchboard", self |-> b,
                                orig |-> b, step |-> 1]
                    /\ ret' = Ok(SwitchboardDecimal_from(b))
          /\ dpc' = "converted"
       \/ /\ dpc = "converted"
          /\ call.op = "into_borsh"
          /\ call' = [op |-> "into_switchboard", self |-> ret.val,
                      orig |-> call.orig, step |-> 2]
          /\ ret' = Ok(SwitchboardDecimal_from(ret.val))
          /\ dpc' = "done"
    /\ UNCHANGED <<aggVars, takeVars>>

\* One numeric conversion of a decimal.
Convert(op, s, r) ==
    /\ dpc = "idle"
    /\ call' = [op |-> op, self |-> s]
    /\ ret' = r
    /\ dpc' = "done"
    /\ UNCHANGED <<aggVars, takeVars>>

TryIntoU64 == \E s \in Decimals : Convert("try_into_u64", s, try_into_u64(s))

TryIntoI64 == \E s \in Decimals : Convert("try_into_i64", s, try_into_i64(s))

TryIntoF64 == \E s \in Decimals : Convert("try_into_f64", s, try_into_f64(s))

\* The decimals that are converted to bool: those above, and values at,
\* just below and just above one half.
BoolDecimals ==
    Decimals \cup
    {SwitchboardDecimal(Z(k), s) :
        k \in {5, -5, 49, -49, 50, -50, 51, -51, 25, 35}, s \in 1..2}

IntoBool == \E s \in BoolDecimals : Convert("into_bool", s, bool_from(s))

\* The Decimals there are among the modelled pairs.
DecimalValues ==
    {Decimal(s.mantissa, s.scale) :
        s \in {x \in Decimals : try_into_Decimal(x).kind = "ok"}}

WireTypes == {"SwitchboardDecimal", "BorshDecimal"}

\* v.try_into(): a SwitchboardDecimal or a BorshDecimal to a Decimal.
IntoDecimal ==
    /\ dpc = "idle"
    /\ \E s \in Decimals, ty \in WireTypes :
          IF ty = "BorshDecimal"
          THEN LET b == BorshDecimal(s.mantissa, s.scale)
               IN  /\ call' = [op |-> "try_into_decimal", self |-> b]
                   /\ ret' = BorshDecimal_try_into_Decimal(b)
          ELSE /\ call' = [op |-> "try_into_decimal", self |-> s]
               /\ ret' = try_into_Decimal(s)
    /\ dpc' = "in_decimal"
    /\ UNCHANGED <<aggVars, takeVars>>

\* The Decimal d made a SwitchboardDecimal or a BorshDecimal.
FromDecimalAs(d, ty) ==
    IF ty = "BorshDecimal"
    THEN BorshDecimal_from_Decimal(d)
    ELSE SwitchboardDecimal_from_Decimal(d)

\* T::from(d): of a fresh Decimal, or of the one try_into has just returned,
\* back to the type it came from.
FromDecimal ==
    /\ \/ /\ dpc = "idle"
          /\ \E d \in DecimalValues, ty \in WireTypes :
                /\ call' = [op |-> "from_decimal", self |-> d, target |-> ty,
                            orig |-> d, step |-> 1]
                /\ ret' = Ok(FromDecimalAs(d, ty))
       \/ /\ dpc = "in_decimal"
          /\ ret.kind = "ok"
          /\ call' = [op |-> "from_decimal", self |-> ret.val,
                      target |-> call.self.ty, orig |-> call.self, step |-> 2]
          /\ ret' = Ok(FromDecimalAs(ret.val, call.self.ty))
    /\ dpc' = "done"
    /\ UNCHANGED <<aggVars, takeVars>>

NextDec ==
    \/ ScaleTo
    \/ NewWithScale
    \/ ScaleBack
    \/ Cmp
    \/ PartialCmp
    \/ Lt
    \/ Le
    \/ Gt
    \/ Ge
    \/ Eq
    \/ IntoBorsh
    \/ IntoSwitchboard
    \/ TryIntoU64
    \/ TryIntoI64
    \/ TryIntoF64
    \/ IntoBool
    \/ IntoDecimal
    \/ FromDecimal

SpecDec == InitDec /\ [][NextDec]_vars

(***************************************************************************)
(* A take order against one resting limit order, as the cases of           *)
(* tests/cases/test_take_order.rs drive and observe it: SpecTake.  The     *)
(* market is the book, the maker's open-orders position, the event queue   *)
(* and the owner's token balances.                                         *)
(***************************************************************************)
\* The amounts the cases observe for one base lot at the price of the cases.
OrderLots == 1

BaseNativePerLot == 100

TakerAskQuote == 99980

MakerBidRebate == 20

TakerBidQuote == 100020

MakerAskQuote == 100020

MaxSteps == 4

Position(bids, asks, base_free, quote_free) ==
    [bids_base_lots |-> bids, asks_base_lots |-> asks,
     base_free_native |-> base_free, quote_free_native |-> quote_free]

\* The market once PlaceOrder has put the maker's limit order on the book.
RestingMarket(side, base, quote) ==
    [book   |-> [side |-> side, lots |-> OrderLots],
     pos    |-> IF side = "Bid" THEN Position(OrderLots, 0, 0, 0)
                ELSE Position(0, OrderLots, 0, 0),
     events |-> <<>>,
     wallet |-> [base |-> base, quote |-> quote]]

\* Mutant: the maker's position is credited by the take order itself.
place_take_order_eager(m) ==
    LET o == m.book
    IN  [m EXCEPT
           !.book = NoOrder,
           !.pos = IF o.side = "Bid"
                   THEN Position(0, 0, o.lots * BaseNativePerLot,
                                 o.lots * MakerBidRebate)
                   ELSE Position(0, 0, 0, o.lots * MakerAskQuote),
           !.wallet = IF o.side = "Bid"
                      THEN [base  |-> @.base - o.lots * BaseNativePerLot,
                            quote |-> @.quote + o.lots * TakerAskQuote]
                      ELSE [base  |-> @.base + o.lots * BaseNativePerLot,
                            quote |-> @.quote - o.lots * TakerBidQuote]]

\* PlaceTakeOrder matching the whole resting order: the order leaves the
\* book, the taker's tokens move, and a fill event waits for the maker.
place_take_order(m) ==
    LET o == m.book
    IN  [m EXCEPT
           !.book = NoOrder,
           !.events = Append(@, [maker_side |-> o.side, lots |-> o.lots]),
           !.wallet = IF o.side = "Bid"
                      THEN [base  |-> @.base - o.lots * BaseNativePerLot,
                            quote |-> @.quote + o.lots * TakerAskQuote]
                      ELSE [base  |-> @.base + o.lots * BaseNativePerLot,
                            quote |-> @.quote - o.lots * TakerBidQuote]]

\* One fill event applied to the maker's position.
apply_fill(pos, ev) ==
    IF ev.maker_side = "Bid"
    THEN Position(pos.bids_base_lots - ev.lots, pos.asks_base_lots,
                  pos.base_free_native + ev.lots * BaseNativePerLot,
                  pos.quote_free_native + ev.lots * MakerBidRebate)
    ELSE Position(pos.bids_base_lots, pos.asks_base_lots - ev.lots,
                  pos.base_free_native,
                  pos.quote_free_native + ev.lots * MakerAskQuote)

RECURSIVE apply_fills(_, _)
apply_fills(pos, evs) ==
    IF evs = <<>> THEN pos ELSE apply_fills(apply_fill(pos, Head(evs)), Tail(evs))

\* ConsumeEvents for the maker's account: every waiting event is applied.
consume_events(m) ==
    [m EXCEPT !.pos = apply_fills(m.pos, m.events), !.events = <<>>]

\* SettleFunds: the maker's free balances are paid out to the owner.
settle_funds(m) ==
    [m EXCEPT
       !.pos = Position(@.bids_base_lots, @.asks_base_lots, 0, 0),
       !.wallet = [base  |-> @.base + m.pos.base_free_native,
                   quote |-> @.quote + m.pos.quote_free_native]]

Wallets == {[base |-> b, quote |-> q] : b \in {1000, 5000}, q \in {200000, 1000000}}

InitTake ==
    /\ acct = DefaultAggregator
    /\ acct0 = acct
    /\ out = NoRet
    /\ prev = NoRet
    /\ calls = 0
    /\ dpc = "idle"
    /\ call = NoCall
    /\ ret = NoRet
    /\ \E side \in {"Bid", "Ask"}, w \in Wallets :
          mkt = RestingMarket(side, w.base, w.quote)
    /\ mkt0 = mkt
    /\ trace = <<>>

PlaceTakeOrder ==
    /\ Len(trace) < MaxSteps
    /\ mkt.book /= NoOrder
    /\ mkt' = place_take_order(mkt)
    /\ trace' = Append(trace, "PlaceTakeOrder")
    /\ UNCHANGED <<aggVars, decVars, mkt0>>

ConsumeEvents ==
    /\ Len(trace) < MaxSteps
    /\ mkt' = consume_events(mkt)
    /\ trace' = Append(trace, "ConsumeEvents")
    /\ UNCHANGED <<aggVars, decVars, mkt0>>

SettleFunds ==
    /\ Len(trace) < MaxSteps
    /\ mkt' = settle_funds(mkt)
    /\ trace' = Append(trace, "SettleFunds")
    /\ UNCHANGED <<aggVars, decVars, mkt0>>

NextTake ==
    \/ PlaceTakeOrder
    \/ ConsumeEvents
    \/ SettleFunds

SpecTake == InitTake /\ [][NextTake]_vars

(***************************************************************************)
(* Claims about get_result, checked under Spec.                            *)
(***************************************************************************)
Called == calls > 0

\* C1: in round-resolution mode get_result fails with InvalidAggregatorRound
\* exactly when latest_confirmed_round.num_success < min_oracle_results, and
\* otherwise (num_success = min_oracle_results included) returns
\* latest_confirmed_round.result with the same mantissa and scale.
C1_RoundQuorum ==
    (Called /\ acct0.resolution_mode = ModeRoundResolution) =>
        IF acct0.latest_confirmed_round.num_success < acct0.min_oracle_results
        THEN out = Err("InvalidAggregatorRound")
        ELSE /\ out.kind = "ok"
             /\ out.val.mantissa = acct0.latest_confirmed_round.result.mantissa
             /\ out.val.scale = acct0.latest_confirmed_round.result.scale

\* The quorum is missed by one and the call fails.
C1_Witness ==
    /\ Called
    /\ acct0.resolution_mode = ModeRoundResolution
    /\ acct0.min_oracle_results = 3
    /\ acct0.latest_confirmed_round.num_success = 2
    /\ out = Err("InvalidAggregatorRound")

\* C2: in sliding-resolution mode get_result always succeeds and returns
\* latest_confirmed_round.result, whatever min_oracle_results and num_success
\* are: the quorum test is skipped.
C2_SlidingBypass ==
    (Called /\ acct0.resolution_mode = ModeSlidingResolution) =>
        out = Ok(acct0.latest_confirmed_round.result)

\* Sliding mode, no successful response, a positive quorum: still a price.
C2_Witness ==
    /\ Called
    /\ acct0.resolution_mode = ModeSlidingResolution
    /\ acct0.latest_confirmed_round.num_success = 0
    /\ acct0.min_oracle_results > 0
    /\ out = Ok(acct0.latest_confirmed_round.result)

\* C3: get_result has no side effects: after any number of calls, failed or
\* not, the account is the one the calls started from, and a repeated call
\* gives the outcome of the call before it.
C3_NoSideEffects ==
    /\ acct = acct0
    /\ calls >= 2 => out = prev

\* Two calls, the second one successful in round mode with a quorum to meet.
C3_Witness ==
    /\ calls = 2
    /\ acct0.resolution_mode = ModeRoundResolution
    /\ acct0.min_oracle_results > 0
    /\ out.kind = "ok"
    /\ prev.kind = "ok"

(***************************************************************************)
(* Claims about rescaling, checked under SpecDec.                          *)
(***************************************************************************)
\* The largest n for which 10^n fits i128.
MaxPow10 == 38

\* q is m / p rounded toward zero, said without dividing: the remainder
\* m - q * p is smaller than p and, unless zero, has the sign of m.
IsTruncQuot(m, p, q) ==
    LET r == ZSub(m, ZMul(q, p))
    IN  /\ ZLt(ZAbs(r), ZAbs(p))
        /\ ZIsZero(r) \/ r.neg = m.neg

\* The exact mantissa of d at scale n.
ExactRescaled(d, n) ==
    IF d.scale > n THEN ZDivTrunc(d.mantissa, TenTo(d.scale - n))
    ELSE IF d.scale < n THEN ZMul(d.mantissa, TenTo(n - d.scale))
    ELSE d.mantissa

C5_TruncatesTowardZero ==
    (call.op = "scale_to" /\ call.new_scale < call.self.scale) =>
        /\ ret.kind = "ok"
        /\ IsTruncQuot(call.self.mantissa,
                       TenTo(call.self.scale - call.new_scale), ret.val)

\* C5: 2 at scale 39 taken to scale 0: the quotient is 0, and the call
\* panics in the power of ten.
C5_Witness ==
    /\ call.op = "scale_to"
    /\ call.self = SwitchboardDecimal(Z(2), 39)
    /\ call.new_scale = 0
    /\ call.overflow_checks
    /\ ret = Panic

\* C6 as stated: scale_to returns the exact rescaled mantissa whenever that
\* fits i128, and fails (never a wrapped or saturated value) when it does not.
C6_FailsOnlyOnOverflow ==
    (call.op = "scale_to") =>
        LET exact == ExactRescaled(call.self, call.new_scale)
        IN  IF FitsI128(exact) THEN ret = Ok(exact) ELSE ret = Panic

\* C6: 0 at scale 0 taken to scale 39: the exact mantissa is 0, and the call
\* panics.
C6_Witness ==
    /\ call.op = "scale_to"
    /\ call.self = SwitchboardDecimal(Z(0), 0)
    /\ call.new_scale = 39
    /\ call.overflow_checks
    /\ ret = Panic

(***************************************************************************)
(* Claims about comparison and equality, checked under SpecDec.            *)
(***************************************************************************)
\* d has a Decimal: a scale of at most 28 and a magnitude below 2^96.
Representable(d) ==
    /\ d.scale <= MAX_PRECISION_U32
    /\ ZLe(ZAbs(d.mantissa), MAX_I128_REPR)

\* The order of a.mantissa * 10^(-a.scale) and b.mantissa * 10^(-b.scale),
\* by cross-multiplication.
NumOrder(a, b) ==
    OrderingOf(ZCmp(ZMul(a.mantissa, TenTo(b.scale)),
                    ZMul(b.mantissa, TenTo(a.scale))))

CmpOps == {"cmp", "partial_cmp", "lt", "le", "gt", "ge"}

\* C7: for decimals a and b that both have a Decimal, cmp(a, b) is the order
\* of their numeric values whatever their scales; it is a total order
\* (reflexive, the reverse when the operands are exchanged, transitive); and
\* partial_cmp, lt, le, gt and ge each say what cmp says.
C7_NumericOrder ==
    (/\ call.op \in CmpOps
     /\ Representable(call.self)
     /\ Representable(call.other)) =>
        LET a == call.self
            b == call.other
            c == NumOrder(a, b)
        IN  /\ cmp(a, b) = Ok(c)
            /\ call.op = "cmp" =>
                  /\ ret = Ok(c)
                  /\ cmp(a, a) = Ok("Equal")
                  /\ cmp(b, a) = Ok(Reverse(c))
                  /\ \A d \in {x \in CmpDecimals : Representable(x)} :
                        (c /= "Greater" /\ cmp(b, d).val /= "Greater") =>
                            cmp(a, d).val /= "Greater"
            /\ call.op = "partial_cmp" => ret = Ok(Some(cmp(a, b).val))
            /\ call.op = "lt" => ret = Ok(cmp(a, b).val = "Less")
            /\ call.op = "le" => ret = Ok(cmp(a, b).val /= "Greater")
            /\ call.op = "gt" => ret = Ok(cmp(a, b).val = "Greater")
            /\ call.op = "ge" => ret = Ok(cmp(a, b).val /= "Less")

\* 1.50 < 15: the larger mantissa is the smaller number.
C7_Witness ==
    /\ call.op = "lt"
    /\ call.self = SwitchboardDecimal(Z(150), 2)
    /\ call.other = SwitchboardDecimal(Z(15), 0)
    /\ ret = Ok(TRUE)

\* C8: a == b holds exactly when the mantissas are equal and the scales are
\* equal, so two decimals of one numeric value and two scales are Equal under
\* cmp and unequal under ==.
C8_StructuralEquality ==
    /\ call.op = "eq" =>
          ret = Ok(call.self.mantissa = call.other.mantissa
                   /\ call.self.scale = call.other.scale)
    /\ (/\ call.op \in {"eq", "cmp"}
        /\ Representable(call.self)
        /\ Representable(call.other)
        /\ call.self.scale /= call.other.scale
        /\ NumOrder(call.self, call.other) = "Equal") =>
            /\ call.op = "eq" => ret = Ok(FALSE)
            /\ call.op = "cmp" => ret = Ok("Equal")
            /\ eq(call.self, call.other) = Ok(FALSE)
            /\ cmp(call.self, call.other) = Ok("Equal")

\* 150 at scale 2 against 15 at scale 1: not ==, and Equal under cmp.
C8_Witness ==
    /\ call.op = "eq"
    /\ call.self = SwitchboardDecimal(Z(150), 2)
    /\ call.other = SwitchboardDecimal(Z(15), 1)
    /\ ret = Ok(FALSE)
    /\ cmp(call.self, call.other) = Ok("Equal")

(***************************************************************************)
(* Claims about the conversions, checked under SpecDec.                    *)
(***************************************************************************)
\* C9: SwitchboardDecimal -> BorshDecimal -> SwitchboardDecimal and
\* BorshDecimal -> SwitchboardDecimal -> BorshDecimal each end with the value
\* they started from, mantissa and scale, for every pair; each conversion
\* keeps the mantissa and the scale and never fails.
C9_WireRoundTrip ==
    (call.op \in {"into_borsh", "into_switchboard"}) =>
        /\ ret.kind = "ok"
        /\ ret.val.mantissa = call.self.mantissa
        /\ ret.val.scale = call.self.scale
        /\ ret.val.ty = (IF call.op = "into_borsh"
                         THEN "BorshDecimal" ELSE "SwitchboardDecimal")
        /\ call.step = 2 => ret.val = call.orig

\* -42 at scale 5, to the wire and back.
C9_Witness ==
    /\ call.op = "into_switchboard"
    /\ call.step = 2
    /\ call.orig = SwitchboardDecimal(Z(-42), 5)
    /\ ret = Ok(SwitchboardDecimal(Z(-42), 5))

\* C10 as stated: i128::MAX at scale 0 fails with IntegerOverflowError when
\* converted to u64 and to i64, and converts to f64.
C10_MaxOverflows ==
    (/\ call.op \in {"try_into_u64", "try_into_i64", "try_into_f64"}
     /\ call.self = SwitchboardDecimal(I128_MAX, 0)) =>
        /\ call.op = "try_into_u64" => ret = Err("IntegerOverflowError")
        /\ call.op = "try_into_i64" => ret = Err("IntegerOverflowError")
        /\ call.op = "try_into_f64" => ret.kind = "ok"

\* C10: i128::MAX at scale 0 has no Decimal, and the conversion to f64 panics.
C10_Witness ==
    /\ call.op = "try_into_f64"
    /\ call.self = SwitchboardDecimal(I128_MAX, 0)
    /\ ret = Panic

ConvertOps == {"try_into_u64", "try_into_i64", "try_into_f64"}

\* C11 as stated: converting any decimal to u64, i64 or f64 ends in a value
\* or in an error value, never in a panic.
C11_NoTrap ==
    (call.op \in ConvertOps) => ret.kind \in {"ok", "err"}

\* C11: 1 at scale 29 has no Decimal, and the conversion to u64 panics.
C11_Witness ==
    /\ call.op = "try_into_u64"
    /\ call.self = SwitchboardDecimal(Z(1), 29)
    /\ ret = Panic

\* C12 (amended): for a decimal that has a Decimal, the conversion to u64
\* fails with IntegerOverflowError exactly when the mantissa is negative or
\* the value without its fractional part is above u64::MAX, the conversion to
\* i64 exactly when the value without its fractional part is outside
\* i64::MIN..i64::MAX, and otherwise each returns the value without its
\* fractional part.
C12_IntegerConversion ==
    (call.op \in {"try_into_u64", "try_into_i64"} /\ Representable(call.self)) =>
        LET m == call.self.mantissa
            p == TenTo(call.self.scale)
            over == IF call.op = "try_into_u64"
                    THEN m.neg \/ ZLe(ZMul(ZAdd(U64_MAX, Z(1)), p), m)
                    ELSE \/ ZLe(ZMul(ZAdd(I64_MAX, Z(1)), p), m)
                         \/ ZLe(m, ZMul(ZSub(I64_MIN, Z(1)), p))
        IN  IF over THEN ret = Err("IntegerOverflowError")
            ELSE ret.kind = "ok" /\ IsTruncQuot(m, p, ret.val)

\* u64::MAX and a half is converted to u64::MAX.
C12_Witness ==
    /\ call.op = "try_into_u64"
    /\ call.self = SwitchboardDecimal(ZAdd(ZMul(U64_MAX, Z(10)), Z(5)), 1)
    /\ ret = Ok(U64_MAX)

\* C12 as stated: the conversion fails with IntegerOverflowError when the
\* value is outside the range of the target, and returns the value without
\* its fractional part when the value is inside it.
C12_AsStated ==
    (call.op \in {"try_into_u64", "try_into_i64"} /\ Representable(call.self)) =>
        LET m == call.self.mantissa
            p == TenTo(call.self.scale)
            inside == IF call.op = "try_into_u64"
                      THEN ~m.neg /\ ZLe(m, ZMul(U64_MAX, p))
                      ELSE ZLe(ZMul(I64_MIN, p), m) /\ ZLe(m, ZMul(I64_MAX, p))
        IN  IF inside THEN ret.kind = "ok" /\ IsTruncQuot(m, p, ret.val)
            ELSE ret = Err("IntegerOverflowError")

\* C13: for a decimal that has a Decimal, the conversion to bool returns
\* false when the magnitude of the value is below one half (zero at any scale
\* included) and true when it is above one half, whatever the sign: the value
\* is rounded to the nearest whole unit and tested for nonzero.
C13_BoolRounds ==
    (call.op = "into_bool" /\ Representable(call.self)) =>
        LET twice == ZMul(Z(2), ZAbs(call.self.mantissa))
            p     == TenTo(call.self.scale)
        IN  /\ ret \in {Ok(TRUE), Ok(FALSE)}
            /\ ZLt(twice, p) => ret = Ok(FALSE)
            /\ ZLt(p, twice) => ret = Ok(TRUE)

\* -0.51 is true.
C13_Witness ==
    /\ call.op = "into_bool"
    /\ call.self = SwitchboardDecimal(Z(-51), 2)
    /\ ret = Ok(TRUE)

(***************************************************************************)
(* Further claims about get_result, checked under Spec.                    *)
(***************************************************************************)
ZeroDecimal == SwitchboardDecimal(Z(0), 0)

ZeroRound(r) ==
    /\ r.num_success = 0
    /\ r.num_error = 0
    /\ r.is_closed = FALSE
    /\ r.round_open_slot = 0
    /\ r.round_open_timestamp = 0
    /\ r.result = ZeroDecimal

\* C14: the default account is all zero, in round-resolution mode, and
\* get_result on it (min_oracle_results = 0, num_success = 0) returns the zero
\* price, mantissa 0 and scale 0, not an error.
C14_DefaultAccount ==
    /\ DefaultAggregator.min_oracle_results = 0
    /\ DefaultAggregator.expiration = 0
    /\ DefaultAggregator.consecutive_failure_count = 0
    /\ ZeroRound(DefaultAggregator.latest_confirmed_round)
    /\ ZeroRound(DefaultAggregator.current_round)
    /\ DefaultAggregator.resolution_mode = ModeRoundResolution
    /\ (Called /\ acct0 = DefaultAggregator) => out = Ok(ZeroDecimal)

\* get_result has been called on the default account and returned a price.
C14_Witness ==
    /\ Called
    /\ acct0 = DefaultAggregator
    /\ out.kind = "ok"
    /\ ZIsZero(out.val.mantissa)
    /\ out.val.scale = 0

(***************************************************************************)
(* Claims about the conversions to and from Decimal, checked under SpecDec.*)
(***************************************************************************)
\* C15: a SwitchboardDecimal or BorshDecimal made from a Decimal has the
\* Decimal's mantissa and scale, and making it never fails; a
\* SwitchboardDecimal or BorshDecimal converted to a Decimal gives
\* DecimalConversionError exactly when the pair has no Decimal, and otherwise
\* a Decimal that converts back to the same mantissa and scale.
C15_DecimalBridge ==
    /\ call.op = "try_into_decimal" =>
          IF Representable(call.self)
          THEN ret = Ok(Decimal(call.self.mantissa, call.self.scale))
          ELSE ret = Err("DecimalConversionError")
    /\ call.op = "from_decimal" =>
          /\ ret.kind = "ok"
          /\ ret.val.ty = call.target
          /\ ret.val.mantissa = call.self.mantissa
          /\ ret.val.scale = call.self.scale
          /\ call.step = 2 => ret.val = call.orig

\* 150 at scale 2, to a Decimal and back: still 150 at scale 2.
C15_Witness ==
    /\ call.op = "from_decimal"
    /\ call.step = 2
    /\ call.orig = SwitchboardDecimal(Z(150), 2)
    /\ ret = Ok(SwitchboardDecimal(Z(150), 2))

\* The accounts that agree with a on resolution_mode, min_oracle_results,
\* latest_confirmed_round.num_success and latest_confirmed_round.result.
SameQuorumFields(a) ==
    {[a EXCEPT !.expiration = x,
               !.consecutive_failure_count = f,
               !.current_round = c,
               !.latest_confirmed_round =
                   AggregatorRound(a.latest_confirmed_round.num_success, e, cl,
                                   slot, ts, a.latest_confirmed_round.result)] :
        x \in 0..1, f \in 0..1, c \in CurrentRounds, e \in 0..1,
        cl \in BOOLEAN, slot \in 0..1, ts \in 0..1}

\* C17: the outcome of get_result is the same for any two accounts that agree
\* on resolution_mode, min_oracle_results, latest_confirmed_round.num_success
\* and latest_confirmed_round.result, whatever current_round, is_closed,
\* round_open_timestamp, round_open_slot, num_error,
\* consecutive_failure_count and expiration are.
C17_QuorumFieldsOnly ==
    Called => \A b \in SameQuorumFields(acct0) : get_result(b).ret = out

\* A price is returned in round mode from a round that is still open, opened
\* at time 0, on an account with failures counted and a newer round under way.
C17_Witness ==
    /\ Called
    /\ acct0.resolution_mode = ModeRoundResolution
    /\ acct0.min_oracle_results > 0
    /\ ~acct0.latest_confirmed_round.is_closed
    /\ acct0.latest_confirmed_round.round_open_timestamp = 0
    /\ acct0.consecutive_failure_count = 1
    /\ acct0.current_round /= DefaultRound
    /\ out.kind = "ok"

(***************************************************************************)
(* The claim about the take order, checked under SpecTake.                 *)
(***************************************************************************)
\* The position of instruction name in the trace, 0 when it is not there.
FirstAt(name) ==
    IF \E i \in 1..Len(trace) : trace[i] = name
    THEN CHOOSE i \in 1..Len(trace) :
            trace[i] = name /\ \A j \in 1..(i - 1) : trace[j] /= name
    ELSE 0

Taken == FirstAt("PlaceTakeOrder") > 0

\* ConsumeEvents has run since the take order.
Consumed ==
    Taken /\ \E j \in (FirstAt("PlaceTakeOrder") + 1)..Len(trace) :
                trace[j] = "ConsumeEvents"

\* The position in the trace of the first ConsumeEvents after the take order.
ConsumedAt ==
    IF Consumed
    THEN CHOOSE j \in (FirstAt("PlaceTakeOrder") + 1)..Len(trace) :
            /\ trace[j] = "ConsumeEvents"
            /\ \A k \in (FirstAt("PlaceTakeOrder") + 1)..(j - 1) :
                  trace[k] /= "ConsumeEvents"
    ELSE 0

\* SettleFunds has run since that ConsumeEvents.
Settled ==
    Consumed /\ \E k \in (ConsumedAt + 1)..Len(trace) : trace[k] = "SettleFunds"

\* The maker's lots still locked in the order's side.
LockedLots == IF mkt0.book.side = "Bid" THEN mkt.pos.bids_base_lots
              ELSE mkt.pos.asks_base_lots

\* C16: when PlaceTakeOrder matches the whole resting order, the taker's
\* token balances move in that instruction while the maker's position keeps
\* the order's lots locked and no free balance; until ConsumeEvents runs
\* nothing of that changes; once it has run the locked lots are 0 and the
\* proceeds are free balances; and after a SettleFunds that follows, both
\* free balances are 0.
C16_TakeOrderSequence ==
    /\ (Taken /\ ~Consumed) =>
          /\ LockedLots = mkt0.book.lots
          /\ mkt.pos.base_free_native = 0
          /\ mkt.pos.quote_free_native = 0
          /\ mkt.wallet =
                IF mkt0.book.side = "Bid"
                THEN [base  |-> mkt0.wallet.base - OrderLots * BaseNativePerLot,
                      quote |-> mkt0.wallet.quote + OrderLots * TakerAskQuote]
                ELSE [base  |-> mkt0.wallet.base + OrderLots * BaseNativePerLot,
                      quote |-> mkt0.wallet.quote - OrderLots * TakerBidQuote]
    /\ Consumed => LockedLots = 0
    /\ (Consumed /\ ~Settled) =>
          /\ mkt.pos.base_free_native =
                (IF mkt0.book.side = "Bid" THEN OrderLots * BaseNativePerLot ELSE 0)
          /\ mkt.pos.quote_free_native =
                (IF mkt0.book.side = "Bid" THEN OrderLots * MakerBidRebate
                 ELSE OrderLots * MakerAskQuote)
    /\ Settled =>
          /\ mkt.pos.base_free_native = 0
          /\ mkt.pos.quote_free_native = 0

\* The sequence of the cases: take, consume, settle, against a resting bid.
C16_Witness ==
    /\ trace = <<"PlaceTakeOrder", "ConsumeEvents", "SettleFunds">>
    /\ mkt0.book.side = "Bid"
    /\ mkt.pos = Position(0, 0, 0, 0)
    /\ mkt.wallet.base = mkt0.wallet.base
    /\ mkt.wallet.quote = mkt0.wallet.quote + TakerAskQuote + MakerBidRebate

====
